---- MODULE Spec2Model ----
(***************************************************************************)
(* Model of the pricing report pipeline: pricingreport.py (Country,        *)
(* PriceInfo, ProductPricing, CountryPrice, ItemPrice, PricingFile,        *)
(* AMERPricingFile), priceprinter.py (print_prices) and SAPCCReport.py.    *)
(*                                                                         *)
(* Python text is modelled as a sequence of one-character strings, so that *)
(* str(), Decimal(text) and float(text) are computed conversions.          *)
(* A Decimal is [none, coef, exp]: the value coef / 10^exp, or None.       *)
(* A float is [m, e]: the value m / 10^e with no trailing zero in m; for   *)
(* texts of at most 15 significant digits float(text) determines, and is   *)
(* determined by, that decimal value.                                      *)
(***************************************************************************)
EXTENDS Integers, Sequences, FiniteSets, TLC

VARIABLES
    \* ---- PriceInfo under test (SpecPriceInfo)
    pi_raw,         \* the raw {price, salePrice} object handed to PriceInfo
    pi,             \* the validated PriceInfo
    pi_pc,          \* "new" | "discount" | "pricing"
    pi_result,      \* value returned by the method called last
    \* ---- ItemPrice construction (SpecItem)
    it_sku,         \* sku argument of ItemPrice(...)
    it_prices,      \* prices argument of ItemPrice(...)
    it_pc,          \* "args" | "built" | "failed" | "projected"
    it_item,        \* the constructed ItemPrice
    it_raised,      \* the exception raised by the constructor
    it_out,         \* the value of output_str_value
    \* ---- one row through decode / construct / project (SpecRow)
    json_str,       \* payload text
    sku,            \* sku text
    r_pc,           \* position in get_pricing_from_JSON and after
    r_root,         \* ProductPricing.root after model_validate_json
    r_country,      \* countries already entered in countryprices, in loop order
    countryprices,  \* the dict built by get_pricing_from_JSON
    r_item,         \* ItemPrice built from the returned dict
    r_raised,       \* exception that left the row's processing
    r_caught,       \* exception bound to e in the except clause
    r_stdout,       \* lines printed
    r_out,          \* output_str_value of r_item
    \* ---- print_prices over a whole sheet (Spec)
    ws,             \* the input worksheet: a sequence of rows of cells
    pc,             \* position in print_prices / get_prices
    row_no,         \* 1-based number of the next row iter_rows yields
    item_prices,    \* the list built by get_prices
    prices,         \* the list returned to print_prices
    raised,         \* exception that left print_prices
    stdout,         \* lines printed
    out_ws,         \* rows of the output worksheet
    out_cursor,     \* position in the for loop of print_prices
    saved           \* the document written by output_wb.save

pi_vars  == <<pi_raw, pi, pi_pc, pi_result>>
it_vars  == <<it_sku, it_prices, it_pc, it_item, it_raised, it_out>>
row_vars == <<json_str, sku, r_pc, r_root, r_country, countryprices, r_item,
              r_raised, r_caught, r_stdout, r_out>>
pp_vars  == <<ws, pc, row_no, item_prices, prices, raised, stdout, out_ws,
              out_cursor, saved>>
vars     == <<pi_vars, it_vars, row_vars, pp_vars>>

----------------------------------------------------------------------------
(* Text                                                                    *)

Digits == {"0", "1", "2", "3", "4", "5", "6", "7", "8", "9"}

DigitVal ==
    ("0" :> 0) @@ ("1" :> 1) @@ ("2" :> 2) @@ ("3" :> 3) @@ ("4" :> 4) @@
    ("5" :> 5) @@ ("6" :> 6) @@ ("7" :> 7) @@ ("8" :> 8) @@ ("9" :> 9)

DigitChar == <<"0", "1", "2", "3", "4", "5", "6", "7", "8", "9">>

Abs(n) == IF n < 0 THEN -n ELSE n

RECURSIVE Pow10(_)
Pow10(k) == IF k = 0 THEN 1 ELSE 10 * Pow10(k - 1)

RECURSIVE DigitsToInt(_)
DigitsToInt(s) ==
    IF s = <<>> THEN 0
    ELSE 10 * DigitsToInt(SubSeq(s, 1, Len(s) - 1)) + DigitVal[s[Len(s)]]

RECURSIVE NatToStr(_)
NatToStr(n) ==
    IF n < 10 THEN <<DigitChar[n + 1]>>
    ELSE NatToStr(n \div 10) \o <<DigitChar[(n % 10) + 1]>>

\* str(n) for an int
IntToStr(n) == IF n < 0 THEN <<"-">> \o NatToStr(-n) ELSE NatToStr(n)

\* n written with exactly k digits (leading zeros)
RECURSIVE PadDigits(_, _)
PadDigits(n, k) ==
    IF k = 0 THEN <<>>
    ELSE PadDigits(n \div 10, k - 1) \o <<DigitChar[(n % 10) + 1]>>

DotPositions(s) == {i \in 1..Len(s) : s[i] = "."}

----------------------------------------------------------------------------
(* Decimal                                                                 *)

NoneDecimal == [none |-> TRUE, coef |-> 0, exp |-> 0]

Dec(c, e) == [none |-> FALSE, coef |-> c, exp |-> e]

\* the [sign][digits][.digits] grammar of Decimal(text) and float(text)
IsNumeral(text) ==
    LET body == IF text # <<>> /\ text[1] = "-" THEN Tail(text) ELSE text
        dots == DotPositions(body)
    IN  /\ Cardinality(dots) <= 1
        /\ \A i \in 1..Len(body) : body[i] \in Digits \/ i \in dots
        /\ Len(body) - Cardinality(dots) >= 1

\* Decimal(text) for a numeral: the coefficient and the number of fraction
\* digits as written (trailing zeros are kept)
ParseDecimal(text) ==
    LET neg  == text[1] = "-"
        body == IF neg THEN Tail(text) ELSE text
        dots == DotPositions(body)
        dot  == IF dots = {} THEN Len(body) + 1 ELSE CHOOSE i \in dots : TRUE
        ip   == SubSeq(body, 1, dot - 1)
        fp   == SubSeq(body, dot + 1, Len(body))
        mag  == DigitsToInt(ip \o fp)
    IN  Dec(IF neg THEN -mag ELSE mag, Len(fp))

\* str(d) for a Decimal with exponent <= 0
StrDecimal(d) ==
    LET mag == Abs(d.coef)
        ip  == NatToStr(mag \div Pow10(d.exp))
        fp  == PadDigits(mag % Pow10(d.exp), d.exp)
    IN  (IF d.coef < 0 THEN <<"-">> ELSE <<>>) \o ip \o
        (IF d.exp > 0 THEN <<".">> \o fp ELSE <<>>)

\* bool(d): a Decimal is falsy exactly when it is zero
Truthy(d) == ~d.none /\ d.coef # 0

RECURSIVE Normalize(_, _)
Normalize(m, e) ==
    IF m = 0 THEN [m |-> 0, e |-> 0]
    ELSE IF e > 0 /\ m % 10 = 0 THEN Normalize(m \div 10, e - 1)
    ELSE [m |-> m, e |-> e]

\* float(text) for a numeral
FloatOfStr(text) ==
    LET d == ParseDecimal(text) IN Normalize(d.coef, d.exp)

----------------------------------------------------------------------------
(* Inputs: texts that occur in price fields                                *)

T_empty  == <<>>
T_129_99 == <<"1", "2", "9", ".", "9", "9">>
T_99_50  == <<"9", "9", ".", "5", "0">>
T_16_00  == <<"1", "6", ".", "0", "0">>
T_15_98  == <<"1", "5", ".", "9", "8">>
T_16_02  == <<"1", "6", ".", "0", "2">>
T_0_00   == <<"0", ".", "0", "0">>
T_0      == <<"0">>
T_10     == <<"1", "0">>
T_2_5    == <<"2", ".", "5">>
T_neg5   == <<"-", "5", ".", "0", "0">>
T_abc    == <<"a", "b", "c">>
T_1_005  == <<"1", ".", "0", "0", "5">>

AmountTexts ==
    {T_empty, T_129_99, T_99_50, T_16_00, T_15_98, T_16_02, T_0_00, T_0,
     T_10, T_2_5, T_neg5, T_abc, T_1_005}

\* a JSON member of a region object: absent, null or a string
Absent     == [t |-> "absent", s |-> <<>>]
JsonNull   == [t |-> "null", s |-> <<>>]
JsonStr(x) == [t |-> "str", s |-> x]

FieldValues == {Absent, JsonNull} \cup {JsonStr(x) : x \in AmountTexts}

RawObjects == [price : FieldValues, salePrice : FieldValues]

----------------------------------------------------------------------------
(* PriceInfo                                                               *)

decimal_places == 2

\* PriceInfo.empty_string_to_none, the mode='before' validator of both fields
\* variant: no normalisation of the empty string
empty_string_kept(v) == v

empty_string_to_none(v) ==
    IF (v.t = "str" /\ v.s = <<>>) \/ v.t = "null" THEN JsonNull ELSE v

\* Optional[Decimal] = Field(default=None, decimal_places=2): an absent member
\* takes the default without validation; otherwise the before-validator runs,
\* then None is accepted, a numeral of at most decimal_places fraction digits
\* is parsed, and anything else is a validation error
ValidateAmount(v) ==
    IF v.t = "absent" THEN [ok |-> TRUE, value |-> NoneDecimal]
    ELSE LET w == empty_string_to_none(v) IN
         IF w.t = "null" THEN [ok |-> TRUE, value |-> NoneDecimal]
         ELSE IF ~IsNumeral(w.s) THEN [ok |-> FALSE, value |-> NoneDecimal]
         ELSE LET d == ParseDecimal(w.s) IN
              IF d.exp > decimal_places
              THEN [ok |-> FALSE, value |-> NoneDecimal]
              ELSE [ok |-> TRUE, value |-> d]

\* PriceInfo validated from a raw object
ValidatePriceInfo(obj) ==
    LET s == ValidateAmount(obj.salePrice)
        p == ValidateAmount(obj.price)
    IN  [ok |-> s.ok /\ p.ok,
         value |-> [salePrice |-> s.value, price |-> p.value]]

\* a Decimal of at most two fraction digits, in hundredths
Cents(d) == d.coef * Pow10(decimal_places - d.exp)

\* quantize(Decimal('0.01'), rounding=ROUND_HALF_UP) of num/den, den # 0:
\* the nearest hundredth's coefficient, ties away from zero
\* variant: rounding=ROUND_DOWN
QuantizeDown(num, den) ==
    LET n  == IF den < 0 THEN -num ELSE num
        q  == Abs(n) \div Abs(den)
    IN  IF n < 0 THEN -q ELSE q

QuantizeHalfUp(num, den) ==
    LET n  == IF den < 0 THEN -num ELSE num
        dd == Abs(den)
        q  == (2 * Abs(n) + dd) \div (2 * dd)
    IN  IF n < 0 THEN -q ELSE q

\* PriceInfo.discount_percentage.  (1 - salePrice/price) * 100 is the
\* rational 100 * (price - salePrice) / price; the context's 28 digits leave
\* the quotient within 1e-25 of it, far less than its distance 1/(200*price
\* in cents) from the nearest tie, so the quantized value is that of the
\* rational.
discount_percentage(self) ==
    IF self.salePrice.none \/ self.price.none \/ self.price.coef = 0
    THEN NoneDecimal
    ELSE Dec(QuantizeHalfUp(10000 * (Cents(self.price) - Cents(self.salePrice)),
                            Cents(self.price)), 2)

\* PriceInfo.savings_amount
savings_amount(self) ==
    IF self.salePrice.none \/ self.price.none THEN NoneDecimal
    ELSE LET e == IF self.price.exp > self.salePrice.exp
                  THEN self.price.exp ELSE self.salePrice.exp
         IN  Dec(self.price.coef * Pow10(e - self.price.exp)
                 - self.salePrice.coef * Pow10(e - self.salePrice.exp), e)

\* PriceInfo.has_pricing
has_pricing(self) == ~self.salePrice.none /\ ~self.price.none

NoPriceInfo == [salePrice |-> NoneDecimal, price |-> NoneDecimal]

----------------------------------------------------------------------------
(* SpecPriceInfo: a PriceInfo is validated from a raw object, then one of  *)
(* its methods is called                                                   *)

PIInit ==
    /\ pi_raw \in RawObjects
    /\ pi = NoPriceInfo
    /\ pi_pc = "raw"
    /\ pi_result = NoneDecimal

PIIdle ==
    /\ pi_raw = [price |-> Absent, salePrice |-> Absent]
    /\ pi = NoPriceInfo
    /\ pi_pc = "idle"
    /\ pi_result = NoneDecimal

PIValidate ==
    /\ pi_pc = "raw"
    /\ LET r == ValidatePriceInfo(pi_raw) IN
         /\ pi' = r.value
         /\ pi_pc' = IF r.ok THEN "new" ELSE "invalid"
    /\ UNCHANGED <<pi_raw, pi_result>>

PIDiscount ==
    /\ pi_pc = "new"
    /\ pi_result' = discount_percentage(pi)
    /\ pi_pc' = "discount"
    /\ UNCHANGED <<pi_raw, pi>>

PISavings ==
    /\ pi_pc = "new"
    /\ pi_result' = savings_amount(pi)
    /\ pi_pc' = "savings"
    /\ UNCHANGED <<pi_raw, pi>>

PIHasPricing ==
    /\ pi_pc = "new"
    /\ pi_result' = has_pricing(pi)
    /\ pi_pc' = "pricing"
    /\ UNCHANGED <<pi_raw, pi>>

----------------------------------------------------------------------------
(* Python values used as sku: a str or an int                              *)

PyStr(x) == [t |-> "str", n |-> 0, s |-> x]
PyInt(k) == [t |-> "int", n |-> k, s |-> <<>>]
PyNone   == [t |-> "none", n |-> 0, s |-> <<>>]

\* str(v)
StrOf(v) ==
    IF v.t = "str" THEN v.s
    ELSE IF v.t = "int" THEN IntToStr(v.n)
    ELSE <<"N", "o", "n", "e">>

S_1234 == <<"1", "2", "3", "4">>
S_77   == <<"7", "7">>

SkuValues == {PyStr(S_1234), PyInt(1234), PyStr(S_77)}

----------------------------------------------------------------------------
(* Exceptions.  cls is the class of the exception the caller receives;     *)
(* for a pydantic ValidationError, type is the type of its first line      *)
(* error, n the number of line errors and error the class of the exception *)
(* a validator raised (ctx['error']); arg is the key of a KeyError.        *)

NoException == [cls |-> "none", type |-> "", error |-> "", n |-> 0, arg |-> ""]

ValidationError(type, n) ==
    [cls |-> "ValidationError", type |-> type, error |-> "", n |-> n, arg |-> ""]

KeyError(key) ==
    [cls |-> "KeyError", type |-> "", error |-> "", n |-> 0, arg |-> key]

\* a ValueError subclass raised inside a validator function
ValueErrorSubclass(name) ==
    [cls |-> name, type |-> "", error |-> "", n |-> 0, arg |-> ""]

----------------------------------------------------------------------------
(* Country, CountryPrice, ItemPrice                                        *)

\* class Country(Enum), in definition order, and the member values
Country == <<"CA", "US">>

CountryValue == ("CA" :> "ca") @@ ("US" :> "us")

CountrySet == {Country[i] : i \in 1..Len(Country)}

CountryPrice(s, p, sp, c) ==
    [sku |-> s, price |-> p, sale_price |-> sp, country |-> c]

NoItem == [sku |-> PyNone, prices |-> <<>>]

\* ItemPrice.validate_prices: the exception it raises, or NoException when it
\* returns self
\* variant: the count check ahead of the sku loop
validate_prices_count_first(self) ==
    IF Cardinality(DOMAIN self.prices) # Len(Country)
    THEN ValueErrorSubclass("MissingCountryError")
    ELSE IF \E c \in DOMAIN self.prices : self.prices[c].sku # self.sku
    THEN ValueErrorSubclass("WrongSKUError")
    ELSE NoException

\* variant: the sku loop alone
validate_prices_no_count(self) ==
    IF \E c \in DOMAIN self.prices : self.prices[c].sku # self.sku
    THEN ValueErrorSubclass("WrongSKUError")
    ELSE NoException

validate_prices(self) ==
    IF \E c \in DOMAIN self.prices : self.prices[c].sku # self.sku
    THEN ValueErrorSubclass("WrongSKUError")
    ELSE IF Cardinality(DOMAIN self.prices) # Len(Country)
    THEN ValueErrorSubclass("MissingCountryError")
    ELSE NoException

\* @model_validator(mode="after"): a ValueError raised by the validator
\* function reaches the caller of the constructor as a ValidationError with
\* one line error of type value_error that carries the raised exception
ModelValidatorAfter(exc) ==
    IF exc.cls = "none" THEN NoException
    ELSE [cls |-> "ValidationError", type |-> "value_error",
          error |-> exc.cls, n |-> 1, arg |-> ""]

\* ItemPrice(sku=..., prices=...): the fields are taken as given (a str or an
\* int sku, a dict of CountryPrice instances keyed by Country), then the
\* after-validator runs
ItemPriceNew(s, ps) ==
    LET self == [sku |-> s, prices |-> ps]
        exc  == ModelValidatorAfter(validate_prices(self))
    IN  [raised |-> exc,
         value  |-> IF exc.cls = "none" THEN self ELSE NoItem]

\* ItemPrice._price_or_zero
price_or_zero(price) ==
    IF Truthy(price) THEN StrDecimal(price) ELSE <<"0">>

\* ItemPrice.output_str_value
\* variant: the countries in the order the enum declares them
output_str_value_enum_order(self) ==
    <<StrOf(self.sku),
      FloatOfStr(price_or_zero(self.prices["CA"].price)),
      FloatOfStr(price_or_zero(self.prices["CA"].sale_price)),
      FloatOfStr(price_or_zero(self.prices["US"].price)),
      FloatOfStr(price_or_zero(self.prices["US"].sale_price))>>

output_str_value(self) ==
    <<StrOf(self.sku),
      FloatOfStr(price_or_zero(self.prices["US"].price)),
      FloatOfStr(price_or_zero(self.prices["US"].sale_price)),
      FloatOfStr(price_or_zero(self.prices["CA"].price)),
      FloatOfStr(price_or_zero(self.prices["CA"].sale_price))>>

----------------------------------------------------------------------------
(* SpecItem: ItemPrice is constructed from an sku and a price map, and a   *)
(* constructed item is projected                                           *)

ItemDecimals == {NoneDecimal, Dec(12999, 2), Dec(0, 2), Dec(995, 1)}

ItemCountryPrices(c) ==
    {CountryPrice(s, p, sp, c) : s \in SkuValues, p \in ItemDecimals,
                                 sp \in {NoneDecimal, Dec(9950, 2)}}

\* every dict[Country, CountryPrice] over a subset of the countries
ItemPriceMaps ==
    UNION {[D -> UNION {ItemCountryPrices(c) : c \in D}] : D \in SUBSET CountrySet}

ITInit ==
    /\ it_sku \in SkuValues
    /\ it_prices \in {m \in ItemPriceMaps : \A c \in DOMAIN m : m[c].country = c}
    /\ it_pc = "args"
    /\ it_item = NoItem
    /\ it_raised = NoException
    /\ it_out = <<>>

ITIdle ==
    /\ it_sku = PyNone
    /\ it_prices = <<>>
    /\ it_pc = "idle"
    /\ it_item = NoItem
    /\ it_raised = NoException
    /\ it_out = <<>>

ITConstruct ==
    /\ it_pc = "args"
    /\ LET r == ItemPriceNew(it_sku, it_prices) IN
         /\ it_item' = r.value
         /\ it_raised' = r.raised
         /\ it_pc' = IF r.raised.cls = "none" THEN "built" ELSE "failed"
    /\ UNCHANGED <<it_sku, it_prices, it_out>>

ITOutput ==
    /\ it_pc = "built"
    /\ it_out' = output_str_value(it_item)
    /\ it_pc' = "projected"
    /\ UNCHANGED <<it_sku, it_prices, it_item, it_raised>>

----------------------------------------------------------------------------
(* Payload texts.  A text is represented by what a JSON parser sees in it: *)
(* syntax "invalid" (not JSON; raw names the text), "array" (valid JSON    *)
(* whose top level is no object) or "object", whose members map a key to a *)
(* region value: an object of the two price members, or a scalar.          *)

RegionObject(p, sp) == [t |-> "object", price |-> p, salePrice |-> sp]
RegionScalar        == [t |-> "scalar", price |-> Absent, salePrice |-> Absent]

InvalidText(raw) == [syntax |-> "invalid", raw |-> raw, members |-> <<>>]
ArrayText        == [syntax |-> "array", raw |-> "[]", members |-> <<>>]
ObjectText(m)    == [syntax |-> "object", raw |-> "", members |-> m]

NotJson  == InvalidText("{not json")
NoneText == InvalidText("None")

RowTexts == {T_empty, T_129_99, T_99_50, T_0_00, T_abc, T_1_005}

RowFieldValues == {Absent, JsonNull} \cup {JsonStr(x) : x \in RowTexts}

RegionValues ==
    {RegionScalar} \cup
    {RegionObject(p, sp) : p \in RowFieldValues, sp \in RowFieldValues}

RegionKeys == {"ca", "us"}

Payloads ==
    {NotJson, NoneText, ArrayText} \cup
    {ObjectText(m) : m \in UNION {[K -> RegionValues] : K \in SUBSET RegionKeys}}

----------------------------------------------------------------------------
(* ProductPricing and PricingFile.get_pricing_from_JSON                    *)

\* line errors of one region value validated as PriceInfo
RegionErrors(v) ==
    IF v.t # "object" THEN 1
    ELSE (IF ValidateAmount(v.price).ok THEN 0 ELSE 1)
         + (IF ValidateAmount(v.salePrice).ok THEN 0 ELSE 1)

RECURSIVE SumErrors(_, _)
SumErrors(m, keys) ==
    IF keys = {} THEN 0
    ELSE LET k == CHOOSE x \in keys : TRUE
         IN  RegionErrors(m[k]) + SumErrors(m, keys \ {k})

\* ProductPricing.model_validate_json: RootModel[dict[str, PriceInfo]]
model_validate_json(text) ==
    IF text.syntax = "invalid"
    THEN [raised |-> ValidationError("json_invalid", 1), root |-> <<>>]
    ELSE IF text.syntax # "object"
    THEN [raised |-> ValidationError("dict_type", 1), root |-> <<>>]
    ELSE LET n == SumErrors(text.members, DOMAIN text.members) IN
         IF n > 0
         THEN [raised |-> ValidationError("field", n), root |-> <<>>]
         ELSE [raised |-> NoException,
               root |-> [k \in DOMAIN text.members |->
                           ValidatePriceInfo(text.members[k]).value]]

\* the CountryPrice(...) call of the loop body
\* variant: price and salePrice exchanged
CountryPriceOfSwapped(root, s, country) ==
    CountryPrice(s, root[CountryValue[country]].salePrice,
                    root[CountryValue[country]].price, country)

CountryPriceOf(root, s, country) ==
    CountryPrice(s, root[CountryValue[country]].price,
                    root[CountryValue[country]].salePrice, country)

\* print(f"Received the following invalid json: {json_str}")
\* variant: the line without the payload text
InvalidJsonLineNoText(text) ==
    [msg |-> "Received the following invalid json: ", text |-> InvalidText("")]

InvalidJsonLine(text) ==
    [msg |-> "Received the following invalid json: ", text |-> text]

\* the first country, in enum order, whose key the root lacks (0 if none)
FirstMissing(root) ==
    LET miss == {i \in 1..Len(Country) : CountryValue[Country[i]] \notin DOMAIN root}
    IN  IF miss = {} THEN 0 ELSE CHOOSE i \in miss : \A j \in miss : i <= j

\* get_pricing_from_JSON as a whole: what it raises, returns and prints
get_pricing_from_JSON(text, s) ==
    LET v == model_validate_json(text) IN
    IF v.raised.cls # "none"
    THEN [raised |-> v.raised, value |-> <<>>, printed |-> <<InvalidJsonLine(text)>>]
    ELSE LET k == FirstMissing(v.root) IN
         IF k # 0
         THEN [raised |-> KeyError(CountryValue[Country[k]]), value |-> <<>>,
               printed |-> <<>>]
         ELSE [raised |-> NoException,
               value |-> [c \in CountrySet |-> CountryPriceOf(v.root, s, c)],
               printed |-> <<>>]

----------------------------------------------------------------------------
(* SpecRow: one row's payload and sku go through get_pricing_from_JSON     *)
(* (line by line), ItemPrice(...) and output_str_value                     *)

RowSkus == {S_1234, S_77}

RowInit ==
    /\ json_str \in Payloads
    /\ sku \in RowSkus
    /\ r_pc = "call"
    /\ r_root = <<>>
    /\ r_country = <<>>
    /\ countryprices = <<>>
    /\ r_item = NoItem
    /\ r_raised = NoException
    /\ r_caught = NoException
    /\ r_stdout = <<>>
    /\ r_out = <<>>

RowIdle ==
    /\ json_str = NotJson
    /\ sku = <<>>
    /\ r_pc = "idle"
    /\ r_root = <<>>
    /\ r_country = <<>>
    /\ countryprices = <<>>
    /\ r_item = NoItem
    /\ r_raised = NoException
    /\ r_caught = NoException
    /\ r_stdout = <<>>
    /\ r_out = <<>>

\* line 161
RowValidateJson ==
    /\ r_pc = "call"
    /\ LET v == model_validate_json(json_str) IN
         /\ r_root' = v.root
         /\ r_caught' = v.raised
         /\ r_pc' = IF v.raised.cls = "none" THEN "loop" ELSE "except"
    /\ UNCHANGED <<json_str, sku, r_country, countryprices, r_item, r_raised,
                   r_stdout, r_out>>

\* variant: root.get(country.value, PriceInfo()) in place of root[...]
RowBindCountryDefault ==
    /\ r_pc = "loop"
    /\ Len(r_country) < Len(Country)
    /\ LET c == Country[Len(r_country) + 1]
           root == [k \in DOMAIN r_root \cup {CountryValue[c]} |->
                      IF k \in DOMAIN r_root THEN r_root[k] ELSE NoPriceInfo]
       IN  /\ countryprices' =
                 [x \in DOMAIN countryprices \cup {c} |->
                     IF x = c THEN CountryPriceOf(root, PyStr(sku), c)
                     ELSE countryprices[x]]
           /\ r_country' = Append(r_country, c)
    /\ UNCHANGED <<json_str, sku, r_pc, r_root, r_item, r_raised, r_caught,
                   r_stdout, r_out>>

\* lines 163-169, one iteration: a KeyError is not a ValidationError, so it
\* leaves the function past the except clause
RowBindCountry ==
    /\ r_pc = "loop"
    /\ Len(r_country) < Len(Country)
    /\ LET c == Country[Len(r_country) + 1] IN
         IF CountryValue[c] \in DOMAIN r_root
         THEN /\ countryprices' =
                    [x \in DOMAIN countryprices \cup {c} |->
                        IF x = c THEN CountryPriceOf(r_root, PyStr(sku), c)
                        ELSE countryprices[x]]
              /\ r_country' = Append(r_country, c)
              /\ UNCHANGED <<r_pc, r_raised>>
         ELSE /\ r_raised' = KeyError(CountryValue[c])
              /\ r_pc' = "raised"
              /\ UNCHANGED <<countryprices, r_country>>
    /\ UNCHANGED <<json_str, sku, r_root, r_item, r_caught, r_stdout, r_out>>

\* line 170
RowReturn ==
    /\ r_pc = "loop"
    /\ Len(r_country) = Len(Country)
    /\ r_pc' = "returned"
    /\ UNCHANGED <<json_str, sku, r_root, r_country, countryprices, r_item,
                   r_raised, r_caught, r_stdout, r_out>>

\* line 172
RowPrintInvalid ==
    /\ r_pc = "except"
    /\ r_stdout' = Append(r_stdout, InvalidJsonLine(json_str))
    /\ r_pc' = "reraise"
    /\ UNCHANGED <<json_str, sku, r_root, r_country, countryprices, r_item,
                   r_raised, r_caught, r_out>>

\* line 173
RowReraise ==
    /\ r_pc = "reraise"
    /\ r_raised' = r_caught
    /\ r_pc' = "raised"
    /\ UNCHANGED <<json_str, sku, r_root, r_country, countryprices, r_item,
                   r_caught, r_stdout, r_out>>

\* lines 195-198
RowItemPrice ==
    /\ r_pc = "returned"
    /\ LET r == ItemPriceNew(PyStr(sku), countryprices) IN
         /\ r_item' = r.value
         /\ r_raised' = r.raised
         /\ r_pc' = IF r.raised.cls = "none" THEN "built" ELSE "raised"
    /\ UNCHANGED <<json_str, sku, r_root, r_country, countryprices, r_caught,
                   r_stdout, r_out>>

\* print_item_price: ip.output_str_value
RowOutput ==
    /\ r_pc = "built"
    /\ r_out' = output_str_value(r_item)
    /\ r_pc' = "projected"
    /\ UNCHANGED <<json_str, sku, r_root, r_country, countryprices, r_item,
                   r_raised, r_caught, r_stdout>>

----------------------------------------------------------------------------
(* Worksheets, AMERPricingFile.get_prices and print_prices                 *)

\* PricingFile column positions (0-based) and SAPCCExportReport.data_starting_row
CATALOG_COL    == 0
NAME_COL       == 1
JSON_PRICE_COL == 2
SKU_COL        == 3

\* variant: the starting row taken as a 0-based index
data_starting_row_zero_based == 4 - 1

data_starting_row == 4

\* a cell of the payload column: empty (value None) or holding a text
EmptyCell      == [t |-> "none", text |-> NoneText]
TextCell(text) == [t |-> "text", text |-> text]

\* str(cell.value) for a cell of the payload column
CellText(cell) == IF cell.t = "none" THEN NoneText ELSE cell.text

\* row[col] of a row tuple, col 0-based
Col(row, col) == row[col + 1]

Example ==
    ObjectText(("us" :> RegionObject(JsonStr(T_129_99), JsonStr(T_99_50))) @@
               ("ca" :> RegionObject(JsonStr(T_empty), JsonStr(T_empty))))

BothPriced ==
    ObjectText(("us" :> RegionObject(JsonStr(T_16_00), JsonStr(T_15_98))) @@
               ("ca" :> RegionObject(JsonStr(T_0_00), JsonNull)))

MissingCa ==
    ObjectText("us" :> RegionObject(JsonStr(T_10), JsonStr(T_2_5)))

PayloadCells ==
    {TextCell(Example), TextCell(BothPriced), TextCell(MissingCa),
     TextCell(NotJson), EmptyCell}

SkuCells == {PyStr(S_1234), PyInt(77), PyNone}

Row(payload, s) == <<PyStr(<<"c">>), PyStr(<<"n">>), payload, s>>

DataRows == {Row(p, s) : p \in PayloadCells, s \in SkuCells}

HeaderRow == Row(TextCell(InvalidText("Price in Json")), PyStr(<<"I", "D">>))

MaxRows == 2

RECURSIVE SeqsOfLen(_, _)
SeqsOfLen(S, n) ==
    IF n = 0 THEN {<<>>}
    ELSE {Append(q, x) : q \in SeqsOfLen(S, n - 1), x \in S}

\* the sheets: fewer than three rows, or the three rows that precede the data
\* of an export followed by at most MaxRows data rows
Sheets ==
    {[i \in 1..h |-> HeaderRow] : h \in 0..2} \cup
    {<<HeaderRow, HeaderRow, HeaderRow>> \o d :
        d \in UNION {SeqsOfLen(DataRows, n) : n \in 0..MaxRows}}

Line(msg) == [msg |-> msg, text |-> InvalidText("")]

header_items == <<"SKU", "US Price", "US Sale Price", "CA Price", "CA Sale Price">>

NotSaved == <<>>

PPInit ==
    /\ ws \in Sheets
    /\ pc = "start"
    /\ row_no = 0
    /\ item_prices = <<>>
    /\ prices = <<>>
    /\ raised = NoException
    /\ stdout = <<>>
    /\ out_ws = <<>>
    /\ out_cursor = 0
    /\ saved = NotSaved

PPIdle ==
    /\ ws = <<>>
    /\ pc = "idle"
    /\ row_no = 0
    /\ item_prices = <<>>
    /\ prices = <<>>
    /\ raised = NoException
    /\ stdout = <<>>
    /\ out_ws = <<>>
    /\ out_cursor = 0
    /\ saved = NotSaved

\* print_prices lines 16-20 and get_prices lines 190-192: the workbook is
\* loaded, the report is made and iter_rows(min_row=data_starting_row) starts
PrintPricesBegin ==
    /\ pc = "start"
    /\ stdout' = Append(stdout, Line("Printing prices"))
    /\ item_prices' = <<>>
    /\ row_no' = data_starting_row
    /\ pc' = "iter_rows"
    /\ UNCHANGED <<ws, prices, raised, out_ws, out_cursor, saved>>

\* what one iteration of the loop of get_prices does with a row
RowResult(row) ==
    LET s == StrOf(Col(row, SKU_COL))
        d == get_pricing_from_JSON(CellText(Col(row, JSON_PRICE_COL)), PyStr(s))
        i == ItemPriceNew(PyStr(s), d.value)
    IN  IF d.raised.cls # "none"
        THEN [raised |-> d.raised, item |-> NoItem, printed |-> d.printed]
        ELSE [raised |-> i.raised, item |-> i.value, printed |-> d.printed]

\* variant: a failing row is caught and a record of defaults stands in
DefaultItem(s) ==
    [sku |-> PyStr(s),
     prices |-> [c \in CountrySet |->
                    CountryPrice(PyStr(s), NoneDecimal, NoneDecimal, c)]]

GetPricesRowCatchAndContinue ==
    /\ pc = "iter_rows"
    /\ row_no <= Len(ws)
    /\ \E r \in {RowResult(ws[row_no])} :
         /\ stdout' = stdout \o r.printed
         /\ item_prices' =
              IF r.raised.cls = "none" THEN Append(item_prices, r.item)
              ELSE Append(item_prices,
                          DefaultItem(StrOf(Col(ws[row_no], SKU_COL))))
         /\ row_no' = row_no + 1
         /\ UNCHANGED <<pc, raised>>
    /\ UNCHANGED <<ws, prices, out_ws, out_cursor, saved>>

\* get_prices lines 192-199, one iteration.  An exception leaves get_prices
\* and print_prices (neither has a handler); the frame's list goes with it.
GetPricesRow ==
    /\ pc = "iter_rows"
    /\ row_no <= Len(ws)
    /\ \E r \in {RowResult(ws[row_no])} :
         /\ stdout' = stdout \o r.printed
         /\ IF r.raised.cls = "none"
            THEN /\ item_prices' = Append(item_prices, r.item)
                 /\ row_no' = row_no + 1
                 /\ UNCHANGED <<pc, raised>>
            ELSE /\ raised' = r.raised
                 /\ pc' = "raised"
                 /\ item_prices' = <<>>
                 /\ UNCHANGED row_no
    /\ UNCHANGED <<ws, prices, out_ws, out_cursor, saved>>

\* get_prices line 200 and print_prices line 20: the list is returned
GetPricesReturn ==
    /\ pc = "iter_rows"
    /\ row_no > Len(ws)
    /\ prices' = item_prices
    /\ pc' = "header"
    /\ UNCHANGED <<ws, row_no, item_prices, raised, stdout, out_ws, out_cursor,
                   saved>>

\* print_prices lines 23-27: a new workbook's active sheet is a Worksheet;
\* print_header fills row 1
PrintHeader ==
    /\ pc = "header"
    /\ stdout' = Append(stdout, Line("printing headers"))
    /\ out_ws' = <<header_items>>
    /\ out_cursor' = 1
    /\ pc' = "items"
    /\ UNCHANGED <<ws, row_no, item_prices, prices, raised, saved>>

\* print_prices lines 29-30, one iteration: ws.append after the last row
PrintItemPrice ==
    /\ pc = "items"
    /\ out_cursor <= Len(prices)
    /\ out_ws' = Append(out_ws, output_str_value(prices[out_cursor]))
    /\ out_cursor' = out_cursor + 1
    /\ UNCHANGED <<ws, pc, row_no, item_prices, prices, raised, stdout, saved>>

\* print_prices line 34
Save ==
    /\ pc = "items"
    /\ out_cursor > Len(prices)
    /\ saved' = out_ws
    /\ pc' = "done"
    /\ UNCHANGED <<ws, row_no, item_prices, prices, raised, stdout, out_ws,
                   out_cursor>>

----------------------------------------------------------------------------
(* Specifications                                                          *)

Init == PPInit /\ PIIdle /\ ITIdle /\ RowIdle

Next ==
    \/ (PrintPricesBegin /\ UNCHANGED <<pi_vars, it_vars, row_vars>>)
    \/ (GetPricesRow /\ UNCHANGED <<pi_vars, it_vars, row_vars>>)
    \/ (GetPricesReturn /\ UNCHANGED <<pi_vars, it_vars, row_vars>>)
    \/ (PrintHeader /\ UNCHANGED <<pi_vars, it_vars, row_vars>>)
    \/ (PrintItemPrice /\ UNCHANGED <<pi_vars, it_vars, row_vars>>)
    \/ (Save /\ UNCHANGED <<pi_vars, it_vars, row_vars>>)

Spec == Init /\ [][Next]_vars

InitRow == RowInit /\ PIIdle /\ ITIdle /\ PPIdle

NextRow ==
    \/ (RowValidateJson /\ UNCHANGED <<pi_vars, it_vars, pp_vars>>)
    \/ (RowBindCountry /\ UNCHANGED <<pi_vars, it_vars, pp_vars>>)
    \/ (RowReturn /\ UNCHANGED <<pi_vars, it_vars, pp_vars>>)
    \/ (RowPrintInvalid /\ UNCHANGED <<pi_vars, it_vars, pp_vars>>)
    \/ (RowReraise /\ UNCHANGED <<pi_vars, it_vars, pp_vars>>)
    \/ (RowItemPrice /\ UNCHANGED <<pi_vars, it_vars, pp_vars>>)
    \/ (RowOutput /\ UNCHANGED <<pi_vars, it_vars, pp_vars>>)

SpecRow == InitRow /\ [][NextRow]_vars

InitItem == ITInit /\ PIIdle /\ RowIdle /\ PPIdle

NextItem ==
    \/ (ITConstruct /\ UNCHANGED <<pi_vars, row_vars, pp_vars>>)
    \/ (ITOutput /\ UNCHANGED <<pi_vars, row_vars, pp_vars>>)

SpecItem == InitItem /\ [][NextItem]_vars

InitPriceInfo == PIInit /\ ITIdle /\ RowIdle /\ PPIdle

NextPriceInfo ==
    \/ (PIValidate /\ UNCHANGED <<it_vars, row_vars, pp_vars>>)
    \/ (PIDiscount /\ UNCHANGED <<it_vars, row_vars, pp_vars>>)
    \/ (PISavings /\ UNCHANGED <<it_vars, row_vars, pp_vars>>)
    \/ (PIHasPricing /\ UNCHANGED <<it_vars, row_vars, pp_vars>>)

SpecPriceInfo == InitPriceInfo /\ [][NextPriceInfo]_vars

----------------------------------------------------------------------------
(* Properties of ItemPrice construction and projection (SpecItem)          *)

AllCarrySku == \A c \in DOMAIN it_prices : it_prices[c].sku = it_sku

SomeWrongSku == \E c \in DOMAIN it_prices : it_prices[c].sku # it_sku

OnePerCountry == DOMAIN it_prices = {"CA", "US"}

\* C1: constructing an ItemPrice from a map whose entries all carry the
\* declared sku but which lacks a declared Country (the empty map included)
\* yields no record and fails with the MissingCountryError kind; with one
\* entry per Country and matching skus the construction succeeds and the
\* record holds the sku and the map given.
C1_MissingCountry ==
    it_pc # "args" =>
      /\ (AllCarrySku /\ ~OnePerCountry) =>
            /\ it_pc = "failed"
            /\ it_item = NoItem
            /\ it_raised.error = "MissingCountryError"
      /\ (AllCarrySku /\ OnePerCountry) =>
            /\ it_pc \in {"built", "projected"}
            /\ it_raised = NoException
            /\ it_item = [sku |-> it_sku, prices |-> it_prices]

\* C1 witness: the empty map was rejected for a missing country
C1_Witness ==
    /\ it_pc = "failed"
    /\ it_prices = <<>>
    /\ it_raised.error = "MissingCountryError"

\* C2: constructing an ItemPrice in which some entry carries another sku
\* fails with the WrongSKUError kind, which differs from the kind surfaced
\* for an incomplete map; a failing construction surfaces exactly one error,
\* one of the two kinds, also when the map is both incomplete and wrong.
C2_WrongSku ==
    it_pc # "args" =>
      /\ SomeWrongSku =>
            /\ it_pc = "failed"
            /\ it_item = NoItem
            /\ it_raised.error = "WrongSKUError"
      /\ it_pc = "failed" =>
            /\ it_raised.n = 1
            /\ it_raised.error \in {"WrongSKUError", "MissingCountryError"}
            /\ it_raised.error = "MissingCountryError" => ~SomeWrongSku
            /\ it_raised.error = "WrongSKUError" => SomeWrongSku

\* C2 witness: a map that is incomplete and carries a wrong sku was rejected
\* for the wrong sku
C2_Witness ==
    /\ it_pc = "failed"
    /\ SomeWrongSku
    /\ ~OnePerCountry
    /\ it_raised.error = "WrongSKUError"

\* the number a Decimal amount stands for; None stands for zero
AmountNumber(d) == IF d.none THEN [m |-> 0, e |-> 0] ELSE Normalize(d.coef, d.exp)

AllDigits(s) == \A i \in 1..Len(s) : s[i] \in Digits

\* t is the text of sku s: the str itself, or the digits of the int
IsTextOf(t, s) ==
    IF s.t = "str" THEN t = s.s
    ELSE /\ AllDigits(t)
         /\ Len(t) >= 1
         /\ (Len(t) > 1 => t[1] # "0")
         /\ DigitsToInt(t) = s.n

\* C5: output_str_value of a validated ItemPrice is the 5-tuple [text of sku,
\* US price, US sale price, CA price, CA sale price] in that order, a None
\* amount projected as the number zero and any other amount as its own
\* number; with all four amounts None it is [sku, 0, 0, 0, 0].
C5_OutputOrder ==
    it_pc = "projected" =>
      /\ Len(it_out) = 5
      /\ IsTextOf(it_out[1], it_sku)
      /\ it_out[2] = AmountNumber(it_prices["US"].price)
      /\ it_out[3] = AmountNumber(it_prices["US"].sale_price)
      /\ it_out[4] = AmountNumber(it_prices["CA"].price)
      /\ it_out[5] = AmountNumber(it_prices["CA"].sale_price)
      /\ (\A c \in {"CA", "US"} :
             it_prices[c].price.none /\ it_prices[c].sale_price.none)
           => \A i \in 2..5 : it_out[i] = [m |-> 0, e |-> 0]

\* C5 witness: an int sku with all amounts None was projected
C5_Witness ==
    /\ it_pc = "projected"
    /\ it_sku = PyInt(1234)
    /\ \A c \in {"CA", "US"} :
          it_prices[c].price.none /\ it_prices[c].sale_price.none
    /\ it_out[1] = <<"1", "2", "3", "4">>
    /\ it_out[5] = [m |-> 0, e |-> 0]

----------------------------------------------------------------------------
(* Properties of PriceInfo (SpecPriceInfo)                                 *)

EmptyString == [t |-> "str", s |-> <<>>]

\* a member that cannot be decoded: a non-empty text that is no amount of at
\* most two decimals
Undecodable(v) == v.t = "str" /\ v.s \in {T_abc, T_1_005}

PIValidated == pi_pc \in {"new", "discount", "savings", "pricing"}

\* C7: a price or salePrice member that is the empty string does not make
\* decoding fail (decoding fails only for an undecodable member), decodes to
\* None and not to zero, and makes has_pricing() false; has_pricing() is true
\* exactly when both amounts are not None.
C7_EmptyString ==
    /\ pi_pc # "raw" =>
          (pi_pc = "invalid" <=>
              (Undecodable(pi_raw.price) \/ Undecodable(pi_raw.salePrice)))
    /\ PIValidated =>
          /\ pi_raw.price = EmptyString => pi.price.none
          /\ pi_raw.salePrice = EmptyString => pi.salePrice.none
    /\ pi_pc = "pricing" =>
          /\ pi_result = (~pi.price.none /\ ~pi.salePrice.none)
          /\ (pi_raw.price = EmptyString \/ pi_raw.salePrice = EmptyString)
                => pi_result = FALSE

\* C7 witness: has_pricing() was called on a PriceInfo decoded from an empty
\* price and a numeric salePrice
C7_Witness ==
    /\ pi_pc = "pricing"
    /\ pi_raw.price = EmptyString
    /\ pi_raw.salePrice = JsonStr(T_99_50)
    /\ pi.price.none
    /\ pi_result = FALSE

\* C8: discount_percentage() is None exactly when salePrice is None, price is
\* None or price is zero; otherwise it is (1 - salePrice/price) * 100 at two
\* decimals, the nearest hundredth with a tie going away from zero
\* (ROUND_HALF_UP), negative when salePrice exceeds price; 23.46 for price
\* 129.99 and salePrice 99.50.
C8_DiscountPercentage ==
    pi_pc = "discount" =>
      LET P == IF pi.price.none THEN 0 ELSE Cents(pi.price)
          S == IF pi.salePrice.none THEN 0 ELSE Cents(pi.salePrice)
          X == 10000 * (P - S)
          R == pi_result.coef
      IN  /\ pi_result.none <=> (pi.salePrice.none \/ pi.price.none \/ P = 0)
          /\ ~pi_result.none =>
                /\ pi_result.exp = 2
                /\ 2 * Abs(R * P - X) <= Abs(P)
                /\ 2 * Abs(R * P - X) = Abs(P) => Abs(R) * Abs(P) > Abs(X)
          /\ (pi_raw.price = JsonStr(T_129_99) /\ pi_raw.salePrice = JsonStr(T_99_50))
                => pi_result = Dec(2346, 2)

\* C8 witness: the discount of a sale price above the price is a negative tie
C8_Witness ==
    /\ pi_pc = "discount"
    /\ pi_raw.price = JsonStr(T_16_00)
    /\ pi_raw.salePrice = JsonStr(T_16_02)
    /\ pi_result = Dec(-13, 2)

----------------------------------------------------------------------------
(* Properties of one row's decoding (SpecRow)                              *)

\* members that decode: absent, null, empty, or an amount of two decimals
DecodableMembers ==
    {Absent, JsonNull, EmptyString, JsonStr(T_129_99), JsonStr(T_99_50),
     JsonStr(T_0_00)}

\* valid JSON, an object of objects whose price members all decode
WellShaped(text) ==
    /\ text.syntax = "object"
    /\ \A k \in DOMAIN text.members :
          /\ text.members[k].t = "object"
          /\ text.members[k].price \in DecodableMembers
          /\ text.members[k].salePrice \in DecodableMembers

\* not valid JSON, or not an object of objects
Malformed(text) ==
    \/ text.syntax # "object"
    \/ \E k \in DOMAIN text.members : text.members[k].t # "object"

LacksCountryKey(text) == \E k \in {"us", "ca"} : k \notin DOMAIN text.members

\* C3: for a well-shaped payload that lacks the key of a declared Country,
\* get_pricing_from_JSON fails with a KeyError naming an absent key, a kind
\* other than the ValidationError of invalid JSON; nothing is printed, no
\* dict is returned and no ItemPrice construction is attempted.
C3_RegionNotFound ==
    (WellShaped(json_str) /\ LacksCountryKey(json_str)) =>
      /\ r_pc \in {"call", "loop", "raised"}
      /\ r_pc = "loop" => Len(r_country) < 2
      /\ r_item = NoItem
      /\ r_pc = "raised" =>
            /\ r_raised.cls = "KeyError"
            /\ r_raised.cls # model_validate_json(NotJson).raised.cls
            /\ r_raised.arg \in {"us", "ca"} \ DOMAIN json_str.members
            /\ r_stdout = <<>>

\* C3 witness: the payload with the "us" key only failed on "ca"
C3_Witness ==
    /\ r_pc = "raised"
    /\ DOMAIN json_str.members = {"us"}
    /\ WellShaped(json_str)
    /\ r_raised.cls = "KeyError"
    /\ r_raised.arg = "ca"

\* C4: for a payload that is not valid JSON or not an object of objects,
\* get_pricing_from_JSON fails with a ValidationError; the line holding the
\* raw payload text is printed before the error leaves the function, and no
\* price map is built or returned.
C4_MalformedPayload ==
    Malformed(json_str) =>
      /\ r_pc \in {"call", "except", "reraise", "raised"}
      /\ countryprices = <<>>
      /\ r_item = NoItem
      /\ r_pc \in {"call", "except", "reraise"} => r_raised = NoException
      /\ r_pc \in {"reraise", "raised"} =>
            r_stdout = <<[msg |-> "Received the following invalid json: ",
                          text |-> json_str]>>
      /\ r_pc = "raised" => r_raised.cls = "ValidationError"

\* C4 witness: the text "{not json" failed after its line was printed
C4_Witness ==
    /\ r_pc = "raised"
    /\ json_str = InvalidText("{not json")
    /\ r_raised.cls = "ValidationError"
    /\ Len(r_stdout) = 1
    /\ r_stdout[1].text.raw = "{not json"

\* the number each amount text of the rows states
StatedNumber ==
    (T_129_99 :> [m |-> 12999, e |-> 2]) @@
    (T_99_50 :> [m |-> 995, e |-> 1]) @@
    (T_0_00 :> [m |-> 0, e |-> 0])

BothPresent(v) ==
    /\ v.t = "object"
    /\ v.price.t = "str" /\ v.price.s \in DOMAIN StatedNumber
    /\ v.salePrice.t = "str" /\ v.salePrice.s \in DOMAIN StatedNumber

AllPresent(text) ==
    /\ text.syntax = "object"
    /\ DOMAIN text.members = {"us", "ca"}
    /\ \A k \in {"us", "ca"} : BothPresent(text.members[k])

\* C6: for a payload with a numeric price and salePrice for every Country,
\* decoding, constructing the ItemPrice and projecting never fails and puts
\* the number each member states at the position of its Country and field.
C6_RoundTrip ==
    AllPresent(json_str) =>
      /\ r_pc \notin {"except", "reraise", "raised"}
      /\ r_pc = "projected" =>
            /\ r_out[1] = sku
            /\ r_out[2] = StatedNumber[json_str.members["us"].price.s]
            /\ r_out[3] = StatedNumber[json_str.members["us"].salePrice.s]
            /\ r_out[4] = StatedNumber[json_str.members["ca"].price.s]
            /\ r_out[5] = StatedNumber[json_str.members["ca"].salePrice.s]

\* C6 witness: four different statements of amounts were projected
C6_Witness ==
    /\ r_pc = "projected"
    /\ json_str.members =
          ("us" :> RegionObject(JsonStr(T_129_99), JsonStr(T_99_50))) @@
          ("ca" :> RegionObject(JsonStr(T_0_00), JsonStr(T_129_99)))
    /\ r_out = <<sku, [m |-> 12999, e |-> 2], [m |-> 995, e |-> 1],
                 [m |-> 0, e |-> 0], [m |-> 12999, e |-> 2]>>

----------------------------------------------------------------------------
(* Properties of print_prices over a sheet (Spec)                          *)

Max(a, b) == IF a > b THEN a ELSE b

\* the number of data rows of the sheet: the rows from row 4 on
NData == Max(Len(ws) - 3, 0)

DataRow(i) == ws[i + 3]

\* the payload cells that decode for both countries, with the amounts they
\* state as US price, US sale price, CA price, CA sale price
ValidPayloadCell(cell) == cell \in {TextCell(Example), TextCell(BothPriced)}

StatedAmounts(cell) ==
    IF cell = TextCell(Example)
    THEN <<Dec(12999, 2), Dec(9950, 2), NoneDecimal, NoneDecimal>>
    ELSE <<Dec(1600, 2), Dec(1598, 2), Dec(0, 2), NoneDecimal>>

StatedNumbers(cell) ==
    IF cell = TextCell(Example)
    THEN <<[m |-> 12999, e |-> 2], [m |-> 995, e |-> 1],
           [m |-> 0, e |-> 0], [m |-> 0, e |-> 0]>>
    ELSE <<[m |-> 16, e |-> 0], [m |-> 1598, e |-> 2],
           [m |-> 0, e |-> 0], [m |-> 0, e |-> 0]>>

\* the text of an sku cell's value
SkuCellText(cell) ==
    IF cell = PyStr(S_1234) THEN <<"1", "2", "3", "4">>
    ELSE IF cell = PyInt(77) THEN <<"7", "7">>
    ELSE <<"N", "o", "n", "e">>

\* the record of a valid row, from its SKU cell (column 3) and its payload
\* cell (column 2) alone
RecordOf(row) ==
    LET t == SkuCellText(row[4])
        a == StatedAmounts(row[3])
    IN  [sku |-> PyStr(t),
         prices |-> ("US" :> CountryPrice(PyStr(t), a[1], a[2], "US")) @@
                    ("CA" :> CountryPrice(PyStr(t), a[3], a[4], "CA"))]

OutputRowOf(row) == <<SkuCellText(row[4])>> \o StatedNumbers(row[3])

AllRowsValid == \A i \in 1..NData : ValidPayloadCell(DataRow(i)[3])

\* C9: when every data row is valid, get_prices returns one ItemPrice per
\* data row (rows from 4 on) in row order, each determined by its row's SKU
\* and payload cells alone, and print_prices saves the header row followed
\* by one output row per item in that order.
C9_OnePerRow ==
    AllRowsValid =>
      /\ pc # "raised"
      /\ pc = "iter_rows" =>
            /\ Len(item_prices) = row_no - 4
            /\ \A i \in 1..Len(item_prices) : item_prices[i] = RecordOf(DataRow(i))
      /\ pc \in {"header", "items", "done"} =>
            /\ Len(prices) = NData
            /\ \A i \in 1..NData : prices[i] = RecordOf(DataRow(i))
      /\ pc = "done" =>
            /\ Len(saved) = NData + 1
            /\ saved[1] = <<"SKU", "US Price", "US Sale Price", "CA Price",
                            "CA Sale Price">>
            /\ \A i \in 1..NData : saved[i + 1] = OutputRowOf(DataRow(i))

\* C9 witness: two different valid rows were saved in row order
C9_Witness ==
    /\ pc = "done"
    /\ NData = 2
    /\ DataRow(1) = Row(TextCell(Example), PyStr(S_1234))
    /\ DataRow(2) = Row(TextCell(BothPriced), PyInt(77))
    /\ saved[2] = <<S_1234, [m |-> 12999, e |-> 2], [m |-> 995, e |-> 1],
                    [m |-> 0, e |-> 0], [m |-> 0, e |-> 0]>>
    /\ saved[3][1] = S_77

\* the first data row that is not valid (0 if every data row is valid)
FirstBad ==
    LET bad == {i \in 1..NData : ~ValidPayloadCell(DataRow(i)[3])}
    IN  IF bad = {} THEN 0 ELSE CHOOSE i \in bad : \A j \in bad : i <= j

C10_State ==
    /\ FirstBad # 0 =>
          /\ pc \in {"start", "iter_rows", "raised"}
          /\ row_no <= FirstBad + 3
          /\ Len(item_prices) < FirstBad
          /\ prices = <<>>
          /\ out_ws = <<>>
          /\ saved = NotSaved
    /\ pc = "raised" =>
          /\ FirstBad # 0
          /\ row_no = FirstBad + 3
          /\ raised.cls \in {"ValidationError", "KeyError"}
          /\ item_prices = <<>>
    /\ saved # NotSaved => (FirstBad = 0 /\ Len(saved) = NData + 1)

\* C10: nothing is caught and continued: when the k-th data row fails, the
\* failure leaves get_prices at that row, no later row is processed, no list
\* is returned, nothing runs afterwards and no document is saved; a saved
\* document has a row for every data row and every data row was valid.
C10_FailFast == []C10_State /\ [][pc # "raised"]_vars

\* C10 witness: the second data row failed after a valid first row
C10_Witness ==
    /\ pc = "raised"
    /\ NData = 2
    /\ FirstBad = 2
    /\ row_no = 5
    /\ raised.cls = "KeyError"
    /\ prices = <<>>
    /\ saved = NotSaved

====
